---- MODULE Spec2Model ----
(***************************************************************************)
(* Model of nrtk-client-go (src/main.go): the sync cycle that fetches a    *)
(* site payload, decides staleness against meta.json, archives the old     *)
(* record, purges and rewrites the content directory, and the HTTP         *)
(* request handler that serves the content directory and the sync trigger. *)
(*                                                                         *)
(* Paths are sequences of segments (the string split on "/"); file         *)
(* contents are sequences of byte tokens; the file system is a function    *)
(* from file paths to contents plus a set of directories.                  *)
(***************************************************************************)
EXTENDS Integers, Sequences, FiniteSets, TLC

VARIABLES
    viper,        \* the global configuration (viper.Get*)
    source,       \* the payloads the remote project or local.json can hold
    files,        \* file system: path -> bytes, for every regular file
    dirs,         \* file system: the directories that exist
    alive,        \* the process is running (FALSE after os.Exit or a panic in main)
    pc,           \* position of main and of each HTTP handler goroutine
    request,      \* per handler: the request being handled
    response,     \* per handler: status written, file served, delivery
    api_response, \* per process: sync()'s api_response
    meta_object,  \* per process: parse()'s meta_object
    current_meta, \* per process: what IsUpdateNeeded read and decided
    todo,         \* per process: directory entries empty_content_dir still has to remove
    idx,          \* per process: index of the next story parse() saves
    cycles,       \* number of sync() invocations main() started so far
    requests,     \* number of HTTP requests accepted so far
    faults,       \* number of injected I/O failures so far
    hist          \* observations of the run and of each running cycle (history only)

vars == <<viper, source, files, dirs, alive, pc, request, response, api_response,
          meta_object, current_meta, todo, idx, cycles, requests, faults, hist>>

(***************************************************************************)
(* Bounds of the model.                                                    *)
(***************************************************************************)
MaxCycles == 4
MaxRequests == 2
MaxFaults == 1

(***************************************************************************)
(* Paths: path.Clean and path.Join on relative slash-separated paths.      *)
(***************************************************************************)
RECURSIVE CleanFrom(_, _)
CleanFrom(rest, out) ==
    IF rest = <<>> THEN out
    ELSE LET s == Head(rest) IN
         IF s = "" \/ s = "." THEN CleanFrom(Tail(rest), out)
         ELSE IF s = ".."
              THEN IF out # <<>> /\ out[Len(out)] # ".."
                   THEN CleanFrom(Tail(rest), SubSeq(out, 1, Len(out) - 1))
                   ELSE CleanFrom(Tail(rest), Append(out, ".."))
              ELSE CleanFrom(Tail(rest), Append(out, s))

\* path.Clean of a relative path; the empty sequence stands for ".".
Clean(p) == CleanFrom(p, <<>>)

\* path.Join(a, b): the elements joined by "/" and cleaned.
Join(a, b) == Clean(a \o b)

\* p + s for a string s without "/": s is appended to the last segment
\* (the path "." is the one segment ".").
AddSuffix(p, s) ==
    IF p = <<>> THEN <<"." \o s>>
    ELSE [p EXCEPT ![Len(p)] = @ \o s]

IsPrefix(a, b) == Len(a) <= Len(b) /\ SubSeq(b, 1, Len(a)) = a

\* a path strictly below directory d
Inside(d, p) == IsPrefix(d, p) /\ Len(p) > Len(d)

Parent(p) == SubSeq(p, 1, Len(p) - 1)

(***************************************************************************)
(* Configuration set up by main().                                         *)
(***************************************************************************)
APP_NAME == ".nrtk"
ContentDir == Join(<<APP_NAME>>, <<"", "www", "">>)
SnapshotDir == Join(<<APP_NAME>>, <<"", "snapshot", "">>)
MetaPath == Join(<<APP_NAME>>, <<"", "meta.json">>)

\* the characters of the STORY_EXTENSION values the model uses
Chars(s) ==
    CASE s = "html" -> <<"h", "t", "m", "l">>
      [] s = "123" -> <<"1", "2", "3">>
      [] OTHER -> <<>>

LowerCase == {"a", "b", "c", "d", "e", "f", "g", "h", "i", "j", "k", "l", "m",
              "n", "o", "p", "q", "r", "s", "t", "u", "v", "w", "x", "y", "z"}

\* regexp.MatchString("([a-z]{1,})", s): the pattern is unanchored, it matches
\* any value that contains a lower-case letter.
MatchLowerCase(s) == \E i \in 1..Len(Chars(s)) : Chars(s)[i] \in LowerCase

storyExtension ==
    IF Len(viper.STORY_EXTENSION) > 0 /\ MatchLowerCase(viper.STORY_EXTENSION)
    THEN "." \o viper.STORY_EXTENSION
    ELSE ""

(***************************************************************************)
(* The operating system's file operations.                                 *)
(***************************************************************************)
IsFile(p) == p \in DOMAIN files
IsDir(p) == p = <<>> \/ p \in dirs

\* some proper prefix of p is a regular file
UnderFile(p) == \E n \in 1..(Len(p) - 1) : IsFile(SubSeq(p, 1, n))

\* os.OpenFile(p, O_RDONLY): nil, ENOENT or ENOTDIR
OpenRead(p) ==
    IF IsFile(p) \/ IsDir(p) THEN "ok"
    ELSE IF UnderFile(p) THEN "ENOTDIR"
    ELSE "ENOENT"

\* os.IsNotExist(err): true of ENOENT only
IsNotExist(err) == err = "ENOENT"

\* os.OpenFile(p, O_CREATE|O_WRONLY): succeeds on a regular file, or creates
\* one in an existing directory
CanOpenWrite(p) == IsFile(p) \/ (p # <<>> /\ ~IsDir(p) /\ IsDir(Parent(p)))

\* f.Write(b) at offset 0 of a file opened without O_TRUNC: the bytes beyond
\* len(b) stay.
WriteAt0(old, b) == b \o SubSeq(old, Len(b) + 1, Len(old))

ContentOf(fs, p) == IF p \in DOMAIN fs THEN fs[p] ELSE <<>>

Put(fs, p, b) == [q \in DOMAIN fs \cup {p} |-> IF q = p THEN b ELSE fs[q]]

Remove(fs, p) == [q \in DOMAIN fs \ {p} |-> fs[q]]

\* SaveFile: the file system after SaveFile wrote bytes b to path p
SaveFile(fs, p, b) == Put(fs, p, WriteAt0(ContentOf(fs, p), b))

(***************************************************************************)
(* Payloads, stories and the metadata record.                              *)
(***************************************************************************)
Index1 == [Anchor |-> <<"index">>, Content |-> <<"i1">>, Hash |-> "h-index-1",
           CanonicalUrl |-> "https://x/", UpdatedAt |-> "2024-01-01T00:00:00Z"]
Index2 == [Anchor |-> <<"index">>, Content |-> <<"i2", "i2">>, Hash |-> "h-index-2",
           CanonicalUrl |-> "https://x/", UpdatedAt |-> "2024-02-02T00:00:00Z"]
About2 == [Anchor |-> <<"about">>, Content |-> <<"a2">>, Hash |-> "h-about-2",
           CanonicalUrl |-> "https://x/about", UpdatedAt |-> "2024-02-02T00:00:00Z"]

\* stories whose anchor is empty, has a "/" or has a ".." segment
NoAnchor == [Anchor |-> <<"">>, Content |-> <<"n3">>, Hash |-> "h-none-3",
             CanonicalUrl |-> "https://x/none", UpdatedAt |-> "2024-03-03T00:00:00Z"]
Nested == [Anchor |-> <<"a", "b">>, Content |-> <<"b3">>, Hash |-> "h-nested-3",
           CanonicalUrl |-> "https://x/a/b", UpdatedAt |-> "2024-03-03T00:00:00Z"]
Escape == [Anchor |-> <<"..", "evil">>, Content |-> <<"x3">>, Hash |-> "h-escape-3",
           CanonicalUrl |-> "https://x/evil", UpdatedAt |-> "2024-03-03T00:00:00Z"]

AllStories == {Index1, Index2, About2, NoAnchor, Nested, Escape}

\* The raw payload bytes, named by id; valid = the bytes are JSON of the
\* payload schema.
Payload1 == [id |-> "p1", valid |-> TRUE, Title |-> "T1",
             Stories |-> <<Index1>>, ErrorPage |-> <<"e1">>]
Payload2 == [id |-> "p2", valid |-> TRUE, Title |-> "T2",
             Stories |-> <<Index2, About2>>, ErrorPage |-> <<"e2">>]
Malformed == [id |-> "bad", valid |-> FALSE, Title |-> "",
              Stories |-> <<>>, ErrorPage |-> <<>>]
\* nil bytes: sync()'s api_response before the fetch
NoBytes == [id |-> "", valid |-> FALSE, Title |-> "",
            Stories |-> <<>>, ErrorPage |-> <<>>]

\* a payload that parses and whose anchors are not plain names
Payload3 == [id |-> "p3", valid |-> TRUE, Title |-> "T3",
             Stories |-> <<NoAnchor, Nested, Escape>>, ErrorPage |-> <<"e3">>]

GoodPayloads == {Payload1, Payload2}
Payloads == GoodPayloads \cup {Malformed}
AnchorPayloads == {Payload1, Payload3}

\* time.Now() as its JSON text: RFC 3339 with the fraction's trailing zeros
\* dropped, so the text has no fixed length.
Times == {<<"12:00:00">>, <<"12:00:01", ".5">>}

\* hex sha256 of the payload bytes: distinct payloads, distinct sums
Sha256Hex(data) == "sha-" \o data.id

Checksums == {Sha256Hex(d) : d \in Payloads \cup AnchorPayloads}
Titles == {d.Title : d \in Payloads \cup AnchorPayloads}
Hashes == {s.Hash : s \in AllStories}
StoryOfHash(h) == CHOOSE s \in AllStories : s.Hash = h

\* MetaObject{}: Go's zero value
ZeroMeta == [Title |-> "", Stories |-> <<>>, Checksum |-> "",
             UpdatedAt |-> <<>>, IsExpired |-> FALSE]

\* json.Marshal(m) for a MetaObject; IsExpired is tagged json:"-"
Marshal(m) ==
    <<"{", m.Title>> \o [i \in 1..Len(m.Stories) |-> m.Stories[i].Hash]
    \o <<"#", m.Checksum, "@">> \o m.UpdatedAt \o <<"}">>

\* the position of the checksum key in a well-formed record
SumKey(b) == CHOOSE i \in 3..Len(b) : b[i] = "#"

\* json.Unmarshal accepts exactly one top-level value: bytes after it are an
\* error.
ValidJson(b) ==
    /\ Len(b) >= 6
    /\ b[1] = "{"
    /\ b[Len(b)] = "}"
    /\ b[2] \in Titles
    /\ \E i \in 3..(Len(b) - 4) :
          /\ b[i] = "#"
          /\ \A j \in 3..(i - 1) : b[j] \in Hashes
          /\ b[i + 1] \in Checksums
          /\ b[i + 2] = "@"
          /\ SubSeq(b, i + 3, Len(b) - 1) \in Times

\* json.Unmarshal(b, &current_meta) for valid b
Unmarshal(b) ==
    LET i == SumKey(b) IN
    [Title |-> b[2],
     Stories |-> [j \in 1..(i - 3) |-> StoryOfHash(b[j + 2])],
     Checksum |-> b[i + 1],
     UpdatedAt |-> SubSeq(b, i + 3, Len(b) - 1),
     IsExpired |-> FALSE]

\* MetaObject.GetFilePath
Meta_GetFilePath(m) ==
    IF m.IsExpired
    THEN AddSuffix(SnapshotDir, "meta." \o m.Checksum \o ".json")
    ELSE MetaPath

\* Story.GetFilePath
Story_GetFilePath(s) == Join(ContentDir, AddSuffix(s.Anchor, storyExtension))

\* ContentFile.GetFilePath
ContentFile_GetFilePath(name) == Join(ContentDir, <<name>>)

\* Story.GetSitemapItem
GetSitemapItem(s) ==
    <<s.CanonicalUrl, IF s.Anchor = <<"index">> THEN "1" ELSE "0.8">>

\* s.UpdatedAt[:19] panics on a shorter string
SitemapPanics(stories) == \E i \in 1..Len(stories) : Len(stories[i].UpdatedAt) < 19

RECURSIVE SitemapItems(_)
SitemapItems(stories) ==
    IF stories = <<>> THEN <<>>
    ELSE GetSitemapItem(Head(stories)) \o SitemapItems(Tail(stories))

\* SiteData.GetSitemap
GetSitemap(stories) == <<"<urlset>">> \o SitemapItems(stories) \o <<"</urlset>">>

(***************************************************************************)
(* Processes: main() and the goroutines net/http runs requestHandler on.   *)
(***************************************************************************)
Main == "main"
Handlers == {"h1", "h2"}
\* goroutines are interchangeable: a request takes the first free one
Earlier(h) == IF h = "h2" THEN {"h1"} ELSE {}
Procs == {Main} \cup Handlers

\* positions inside sync() and parse()
SyncPCs == {"sync", "IsUpdateNeeded", "archive", "purge", "remove",
            "save_meta", "save_story", "save_404", "save_sitemap", "return"}

InSync(p) == pc[p] \in SyncPCs

Tokens == {"", "secret", "wrong"}

DefaultSyncHandler == <<".nrtk-sync">>

NoRequest == [Path |-> <<>>, Token |-> ""]
NoResponse == [status |-> 0, probes |-> {}, served |-> {}, delivered |-> FALSE]

\* the observations of one cycle, reset when sync() is entered
NoCycle == [start |-> "", wrote |-> FALSE, archived |-> "no", saved |-> FALSE,
            overlapped |-> FALSE, purged |-> "no", failed |-> {}]

\* an injected I/O failure, within the budget
CanFail(f) == f \in BOOLEAN /\ (f => faults < MaxFaults)
Count(f) == IF f THEN faults + 1 ELSE faults

\* the observations of the cycle p is about to start
StartCycle(p) ==
    [NoCycle EXCEPT !.start = hist.persisted,
                    !.overlapped = \E q \in Procs \ {p} : InSync(q)]

\* every cycle in flight when p enters sync() now overlaps another
MarkOverlap(cyc, p) ==
    [q \in Procs |->
        IF q # p /\ InSync(q) THEN [cyc[q] EXCEPT !.overlapped = TRUE] ELSE cyc[q]]

\* create_dirs: os.MkdirAll of the content and snapshot directories
create_dirs(ds) == ds \cup {<<APP_NAME>>, ContentDir, SnapshotDir}

\* MetaObject.SetChecksum
SetChecksum(m, data, now) ==
    [m EXCEPT !.Checksum = Sha256Hex(data), !.UpdatedAt = now]

\* the files below the content directory
Tree(fs) == [q \in {r \in DOMAIN fs : Inside(ContentDir, r)} |-> fs[q]]

RECURSIVE SaveStories(_, _)
SaveStories(fs, stories) ==
    IF stories = <<>> THEN fs
    ELSE SaveStories(SaveFile(fs, Story_GetFilePath(Head(stories)), Head(stories).Content),
                     Tail(stories))

\* the content tree one complete materialization of data writes into an
\* empty content directory (parse, lines 292-309)
Generation(data) ==
    SaveFile(SaveFile(SaveStories(<< >>, data.Stories),
                      ContentFile_GetFilePath("404" \o storyExtension), data.ErrorPage),
             ContentFile_GetFilePath("sitemap.xml"), GetSitemap(data.Stories))

\* the metadata record of data, stamped now
MetaOf(data, now) ==
    SetChecksum([ZeroMeta EXCEPT !.Title = data.Title, !.Stories = data.Stories],
                data, now)

\* the files an earlier run of the program that synced data left behind
\* (nothing for nil data)
LeftBy(data) ==
    IF data.valid
    THEN SaveFile(Generation(data), MetaPath, Marshal(MetaOf(data, <<"12:00:00">>)))
    ELSE << >>

Init(config, payloads, failed, earlier) ==
    /\ viper = config
    /\ source = payloads
    /\ files = LeftBy(earlier)
    /\ dirs = IF earlier.valid THEN create_dirs({}) ELSE {}
    /\ alive = TRUE
    /\ pc = [p \in Procs |-> IF p = Main THEN "main" ELSE "idle"]
    /\ request = [h \in Handlers |-> NoRequest]
    /\ response = [h \in Handlers |-> NoResponse]
    /\ api_response = [p \in Procs |-> NoBytes]
    /\ meta_object = [p \in Procs |-> ZeroMeta]
    /\ current_meta = [p \in Procs |-> ZeroMeta]
    /\ todo = [p \in Procs |-> <<>>]
    /\ idx = [p \in Procs |-> 0]
    /\ cycles = 0
    /\ requests = 0
    /\ faults = failed
    /\ hist = [persisted |-> IF earlier.valid THEN Sha256Hex(earlier) ELSE "",
               superseded |-> {},
               complete |-> earlier.valid,
               cyc |-> [p \in Procs |-> NoCycle]]

\* sync() returned: its locals and parse()'s are gone
Returned(p) ==
    /\ api_response' = [api_response EXCEPT ![p] = NoBytes]
    /\ meta_object' = [meta_object EXCEPT ![p] = ZeroMeta]
    /\ current_meta' = [current_meta EXCEPT ![p] = ZeroMeta]
    /\ todo' = [todo EXCEPT ![p] = <<>>]
    /\ idx' = [idx EXCEPT ![p] = 0]

\* panic(): fatal to the process in main; in a handler goroutine net/http
\* recovers it and drops the connection without sending the response
panic(p) ==
    /\ pc' = [pc EXCEPT ![p] = "panic"]
    /\ alive' = (p # Main)

\* log.Fatal: os.Exit(1)
Fatal(p) ==
    /\ pc' = [pc EXCEPT ![p] = "fatal"]
    /\ alive' = FALSE

\* parse(), lines 257-282: decode the payload, create the directories, build
\* meta_object
parse(p, data) ==
    \/ /\ ~data.valid
       /\ Fatal(p)
       /\ UNCHANGED <<dirs, meta_object, faults>>
    \/ /\ data.valid
       /\ CanFail(TRUE)
       /\ Fatal(p)
       /\ faults' = Count(TRUE)
       /\ UNCHANGED <<dirs, meta_object>>
    \/ /\ data.valid
       /\ \E now \in Times :
            meta_object' = [meta_object EXCEPT ![p] = MetaOf(data, now)]
       /\ dirs' = create_dirs(dirs)
       /\ pc' = [pc EXCEPT ![p] = "IsUpdateNeeded"]
       /\ UNCHANGED <<alive, faults>>

\* sync(), lines 414-435: acquire the payload, from the remote when a token
\* is set and MODE_FETCH_LOCAL is off, else from local.json, and parse it
sync(p) ==
    /\ alive /\ pc[p] = "sync"
    /\ \E src \in source \cup {NoBytes} :
         \/ /\ src = NoBytes
            /\ IF ~viper.MODE_FETCH_LOCAL /\ Len(viper.API_TOKEN) > 0
               THEN panic(p)
               ELSE pc' = [pc EXCEPT ![p] = "return"] /\ UNCHANGED alive
            /\ UNCHANGED <<api_response, dirs, meta_object, faults>>
         \/ /\ src # NoBytes
            /\ api_response' = [api_response EXCEPT ![p] = src]
            /\ parse(p, src)
    /\ UNCHANGED <<viper, source, files, request, response, current_meta, todo, idx,
                   cycles, requests, hist>>

\* a decision that looks at the comparison only, not at MODE_FORCE_UPDATE
AfterDecision_IgnoreForce(result) == IF result THEN "purge" ELSE "return"

\* the position after IsUpdateNeeded returned result (line 284)
AfterDecision(result) ==
    IF result \/ viper.MODE_FORCE_UPDATE THEN "purge" ELSE "return"

\* MetaObject.IsUpdateNeeded, lines 121-136: read and compare
IsUpdateNeeded(p) ==
    /\ alive /\ pc[p] = "IsUpdateNeeded"
    /\ IF ~IsFile(MetaPath) \/ ~ValidJson(files[MetaPath])
       THEN /\ current_meta' = [current_meta EXCEPT ![p] = ZeroMeta]
            /\ pc' = [pc EXCEPT ![p] = AfterDecision(TRUE)]
       ELSE LET m == Unmarshal(files[MetaPath])
                expired == m.Checksum # meta_object[p].Checksum
            IN /\ current_meta' = [current_meta EXCEPT ![p] =
                                      [m EXCEPT !.IsExpired = expired]]
               /\ pc' = [pc EXCEPT ![p] =
                            IF expired THEN "archive" ELSE AfterDecision(FALSE)]
    /\ UNCHANGED <<viper, source, files, dirs, alive, request, response, api_response,
                   meta_object, todo, idx, cycles, requests, faults, hist>>

\* IsUpdateNeeded, lines 136-139: SaveFile(current_meta), its error dropped
archive(p) ==
    /\ alive /\ pc[p] = "archive"
    /\ \E f \in BOOLEAN :
         /\ CanFail(f)
         /\ faults' = Count(f)
         /\ LET path == Meta_GetFilePath(current_meta[p])
                ok == ~f /\ CanOpenWrite(path)
            IN /\ files' = IF ok THEN SaveFile(files, path, Marshal(current_meta[p]))
                                 ELSE files
               /\ hist' = [hist EXCEPT
                     !.cyc[p].wrote = @ \/ ok,
                     !.cyc[p].archived = IF ~ok THEN "failed"
                                         ELSE IF IsFile(path) THEN "overwritten"
                                         ELSE "new"]
    /\ pc' = [pc EXCEPT ![p] = AfterDecision(TRUE)]
    /\ UNCHANGED <<viper, source, dirs, alive, request, response, api_response,
                   meta_object, current_meta, todo, idx, cycles, requests>>

\* the names a content directory can hold, in os.ReadDir's (sorted) order
DirOrder == <<".html", "404", "404.html", "about", "about.html", "index", "index.html",
              "sitemap.xml">>

\* os.ReadDir(ContentDir): the entries directly inside, sorted by name
ReadDir(fs) == SelectSeq(DirOrder, LAMBDA n : Append(ContentDir, n) \in DOMAIN fs)

\* empty_content_dir, lines 234-242: list the content directory
empty_content_dir(p) ==
    /\ alive /\ pc[p] = "purge"
    /\ \E f \in BOOLEAN :
         /\ CanFail(f)
         /\ faults' = Count(f)
         /\ LET ok == ~f /\ IsDir(ContentDir)
                entries == IF ok THEN ReadDir(files) ELSE <<>>
            IN /\ todo' = [todo EXCEPT ![p] = entries]
               /\ pc' = [pc EXCEPT ![p] = IF entries = <<>> THEN "save_meta" ELSE "remove"]
               /\ hist' = [hist EXCEPT !.cyc[p].purged = IF ok THEN "ok" ELSE "failed"]
    /\ UNCHANGED <<viper, source, files, dirs, alive, request, response, api_response,
                   meta_object, current_meta, idx, cycles, requests>>

\* empty_content_dir, lines 244-252: one os.Remove; on an error the function
\* returns it and parse() (line 288) drops it
os_Remove(p) ==
    /\ alive /\ pc[p] = "remove"
    /\ \E f \in BOOLEAN :
         /\ CanFail(f)
         /\ faults' = Count(f)
         /\ LET path == Join(ContentDir, <<"", Head(todo[p])>>)
                ok == ~f /\ IsFile(path)
                rest == IF ok THEN Tail(todo[p]) ELSE <<>>
            IN /\ files' = IF ok THEN Remove(files, path) ELSE files
               /\ todo' = [todo EXCEPT ![p] = rest]
               /\ pc' = [pc EXCEPT ![p] = IF rest = <<>> THEN "save_meta" ELSE "remove"]
               /\ hist' = [hist EXCEPT !.cyc[p].wrote = @ \/ ok,
                                       !.cyc[p].purged = IF ok THEN @ ELSE "failed"]
    /\ UNCHANGED <<viper, source, dirs, alive, request, response, api_response,
                   meta_object, current_meta, idx, cycles, requests>>

\* parse(), line 290: SaveFile(meta_object)
save_meta(p) ==
    /\ alive /\ pc[p] = "save_meta"
    /\ \E f \in BOOLEAN :
         /\ CanFail(f)
         /\ faults' = Count(f)
         /\ LET path == Meta_GetFilePath(meta_object[p])
                ok == ~f /\ CanOpenWrite(path)
            IN /\ files' = IF ok THEN SaveFile(files, path, Marshal(meta_object[p]))
                                 ELSE files
               /\ hist' = [hist EXCEPT
                     !.persisted = IF ok THEN meta_object[p].Checksum ELSE @,
                     !.superseded =
                         IF ok /\ hist.persisted \notin {"", meta_object[p].Checksum}
                         THEN @ \cup {hist.persisted} ELSE @,
                     !.cyc[p].wrote = @ \/ ok,
                     !.cyc[p].saved = ok]
    /\ idx' = [idx EXCEPT ![p] = 1]
    /\ pc' = [pc EXCEPT ![p] =
                 IF api_response[p].Stories = <<>> THEN "save_404" ELSE "save_story"]
    /\ UNCHANGED <<viper, source, dirs, alive, request, response, api_response,
                   meta_object, current_meta, todo, cycles, requests>>

\* a loop over the stories that ends the batch at the first error
AfterStory_Abort(p, e) ==
    IF e THEN "return"
    ELSE IF idx[p] = Len(api_response[p].Stories) THEN "save_404" ELSE "save_story"

\* parse(), lines 292-297: the position after SaveFile(story) returned, with
\* an error (e) or without: the error is printed and the loop goes on
AfterStory(p, e) ==
    IF idx[p] = Len(api_response[p].Stories) THEN "save_404" ELSE "save_story"

\* parse(), lines 292-297: SaveFile(story), an error is printed
save_story(p) ==
    /\ alive /\ pc[p] = "save_story"
    /\ \E f \in BOOLEAN :
         /\ CanFail(f)
         /\ faults' = Count(f)
         /\ LET story == api_response[p].Stories[idx[p]]
                path == Story_GetFilePath(story)
                ok == ~f /\ CanOpenWrite(path)
            IN /\ files' = IF ok THEN SaveFile(files, path, story.Content) ELSE files
               /\ hist' = [hist EXCEPT
                     !.cyc[p].wrote = @ \/ ok,
                     !.cyc[p].failed = IF ok THEN @ ELSE @ \cup {path}]
               /\ pc' = [pc EXCEPT ![p] = AfterStory(p, ~ok)]
    /\ idx' = [idx EXCEPT ![p] = @ + 1]
    /\ UNCHANGED <<viper, source, dirs, alive, request, response, api_response,
                   meta_object, current_meta, todo, cycles, requests>>

\* parse(), lines 299-303: the error page
save_404(p) ==
    /\ alive /\ pc[p] = "save_404"
    /\ \E f \in BOOLEAN :
         /\ CanFail(f)
         /\ faults' = Count(f)
         /\ LET path == ContentFile_GetFilePath("404" \o storyExtension)
                ok == ~f /\ CanOpenWrite(path)
            IN /\ files' = IF ok THEN SaveFile(files, path, api_response[p].ErrorPage)
                                 ELSE files
               /\ hist' = [hist EXCEPT !.cyc[p].wrote = @ \/ ok]
    /\ pc' = [pc EXCEPT ![p] = "save_sitemap"]
    /\ UNCHANGED <<viper, source, dirs, alive, request, response, api_response,
                   meta_object, current_meta, todo, idx, cycles, requests>>

\* parse(), lines 305-309: the sitemap; GetSitemap panics on a story whose
\* updated_at is shorter than 19 bytes
save_sitemap(p) ==
    /\ alive /\ pc[p] = "save_sitemap"
    /\ IF SitemapPanics(api_response[p].Stories)
       THEN /\ panic(p)
            /\ UNCHANGED <<files, faults, hist>>
       ELSE /\ \E f \in BOOLEAN :
                 /\ CanFail(f)
                 /\ faults' = Count(f)
                 /\ LET path == ContentFile_GetFilePath("sitemap.xml")
                        ok == ~f /\ CanOpenWrite(path)
                    IN /\ files' = IF ok
                                   THEN SaveFile(files, path,
                                                 GetSitemap(api_response[p].Stories))
                                   ELSE files
                       /\ hist' = [hist EXCEPT !.cyc[p].wrote = @ \/ ok,
                                               !.complete = TRUE]
            /\ pc' = [pc EXCEPT ![p] = "return"]
            /\ UNCHANGED alive
    /\ UNCHANGED <<viper, source, dirs, request, response, api_response,
                   meta_object, current_meta, todo, idx, cycles, requests>>

(***************************************************************************)
(* main(), lines 489-506.                                                  *)
(***************************************************************************)
\* every mode starts with one sync()
main ==
    /\ alive /\ pc[Main] = "main"
    /\ pc' = [pc EXCEPT ![Main] = "sync"]
    /\ cycles' = cycles + 1
    /\ hist' = [hist EXCEPT !.cyc = [MarkOverlap(@, Main) EXCEPT ![Main] = StartCycle(Main)]]
    /\ UNCHANGED <<viper, source, files, dirs, alive, request, response, api_response,
                   meta_object, current_meta, todo, idx, requests, faults>>

\* server mode: sync() returned, start_server() listens
start_server ==
    /\ alive /\ pc[Main] = "return"
    /\ viper.HTTP_SERVER_ENABLED
    /\ pc' = [pc EXCEPT ![Main] = "serve"]
    /\ Returned(Main)
    /\ hist' = [hist EXCEPT !.cyc[Main] = NoCycle]
    /\ UNCHANGED <<viper, source, files, dirs, alive, request, response, cycles, requests, faults>>

\* timer mode: sleep, then the next sync()
nap ==
    /\ alive /\ pc[Main] = "return"
    /\ ~viper.HTTP_SERVER_ENABLED /\ viper.MODE_INFINITY > 0
    /\ cycles < MaxCycles
    /\ pc' = [pc EXCEPT ![Main] = "sync"]
    /\ cycles' = cycles + 1
    /\ Returned(Main)
    /\ hist' = [hist EXCEPT !.cyc = [MarkOverlap(@, Main) EXCEPT ![Main] = StartCycle(Main)]]
    /\ UNCHANGED <<viper, source, files, dirs, alive, request, response, requests, faults>>

\* run-once mode: main returns
main_exit ==
    /\ alive /\ pc[Main] = "return"
    /\ ~viper.HTTP_SERVER_ENABLED /\ viper.MODE_INFINITY = 0
    /\ pc' = [pc EXCEPT ![Main] = "exit"]
    /\ alive' = FALSE
    /\ Returned(Main)
    /\ hist' = [hist EXCEPT !.cyc[Main] = NoCycle]
    /\ UNCHANGED <<viper, source, files, dirs, request, response, cycles, requests, faults>>

(***************************************************************************)
(* The HTTP handler.  A URL path is its text after the leading "/", split  *)
(* on "/": "/" is <<"">>, "/config/" is <<"config", "">>.                  *)
(***************************************************************************)
Root == <<"">>

ignoreURLs == {<<"favicon.ico">>, <<"robots.txt">>, <<"config", "">>, <<".git", "config">>}

\* requestHandler, lines 373-390: which branch handles the path
requestHandler(path) ==
    IF path \in ignoreURLs THEN "NotFound"
    ELSE IF path # Root
         THEN IF path = viper.HTTP_SERVER_SYNC_HANDLER
              THEN "handleSyncRequest"
              ELSE "handleFileRequest"
         ELSE "ServeIndex"

\* a token check that accepts every token that is present
Authorized_AnyToken(token) == token # ""

\* handleSyncRequest, line 318
Authorized(token) == token = viper.API_TOKEN

\* handleFileRequest, lines 330-362: the paths opened, the status written
\* with WriteHeader (0: none), the path given to http.ServeFile
FileResponse(path) ==
    LET story_extension == storyExtension
        cleaned == Clean(path)
        file_path == Join(ContentDir, cleaned)
        file_path_extension == Join(ContentDir, AddSuffix(cleaned, story_extension))
    IN IF IsNotExist(OpenRead(file_path))
       THEN IF Len(story_extension) > 0
            THEN IF IsNotExist(OpenRead(file_path_extension))
                 THEN [status |-> 404,
                       probes |-> {file_path, file_path_extension},
                       served |-> {Join(ContentDir, <<"", "404" \o story_extension>>)},
                       delivered |-> TRUE]
                 ELSE [status |-> 0,
                       probes |-> {file_path, file_path_extension},
                       served |-> {file_path_extension},
                       delivered |-> TRUE]
            ELSE [status |-> 404,
                  probes |-> {file_path},
                  served |-> {Join(ContentDir, <<"", "404">>)},
                  delivered |-> TRUE]
       ELSE [status |-> 0,
             probes |-> {file_path},
             served |-> {file_path},
             delivered |-> TRUE]

\* the request paths the model sends
FilePaths == {<<"index">>, <<"index.html">>, <<"about">>, <<"missing">>,
              <<"index.html", "x">>, <<"index", "..", "about">>,
              <<"..", "meta.json">>, <<"..", "..", "etc">>}
RequestPaths == FilePaths \cup ignoreURLs \cup {Root, DefaultSyncHandler}

\* a handler goroutine is free and the listener accepts a request
Accepts(h) ==
    /\ alive /\ pc[Main] = "serve" /\ pc[h] = "idle"
    /\ \A g \in Earlier(h) : pc[g] # "idle"
    /\ requests < MaxRequests

\* requestHandler, line 374: http.NotFound for a denylisted path
NotFound(h) ==
    /\ Accepts(h)
    /\ \E path \in RequestPaths :
         /\ requestHandler(path) = "NotFound"
         /\ request' = [request EXCEPT ![h] =
                           [Path |-> path, Token |-> ""]]
    /\ response' = [response EXCEPT ![h] =
                       [NoResponse EXCEPT !.status = 404, !.delivered = TRUE]]
    /\ requests' = requests + 1
    /\ UNCHANGED <<viper, source, files, dirs, alive, pc, api_response, meta_object,
                   current_meta, todo, idx, cycles, faults, hist>>

\* requestHandler, line 388: "/" serves the index file
ServeIndex(h) ==
    /\ Accepts(h)
    /\ \E path \in RequestPaths :
         /\ requestHandler(path) = "ServeIndex"
         /\ request' = [request EXCEPT ![h] =
                           [Path |-> path, Token |-> ""]]
    /\ response' = [response EXCEPT ![h] =
           [NoResponse EXCEPT
               !.served = {Join(ContentDir, <<"", "index" \o storyExtension>>)},
               !.delivered = TRUE]]
    /\ requests' = requests + 1
    /\ UNCHANGED <<viper, source, files, dirs, alive, pc, api_response, meta_object,
                   current_meta, todo, idx, cycles, faults, hist>>

\* requestHandler, line 384: handleFileRequest
handleFileRequest(h) ==
    /\ Accepts(h)
    /\ \E path \in RequestPaths :
         /\ requestHandler(path) = "handleFileRequest"
         /\ request' = [request EXCEPT ![h] =
                           [Path |-> path, Token |-> ""]]
         /\ response' = [response EXCEPT ![h] = FileResponse(path)]
    /\ requests' = requests + 1
    /\ UNCHANGED <<viper, source, files, dirs, alive, pc, api_response, meta_object,
                   current_meta, todo, idx, cycles, faults, hist>>

\* handleSyncRequest, lines 317-328: the response is written before sync()
\* runs and is sent when the handler returns
handleSyncRequest(h) ==
    /\ Accepts(h)
    /\ \E path \in RequestPaths, token \in Tokens :
         /\ requestHandler(path) = "handleSyncRequest"
         /\ request' = [request EXCEPT ![h] =
                           [Path |-> path, Token |-> token]]
         /\ IF Authorized(token)
            THEN /\ response' = [response EXCEPT ![h] =
                                    [NoResponse EXCEPT !.status = 200]]
                 /\ pc' = [pc EXCEPT ![h] = "sync"]
                 /\ hist' = [hist EXCEPT !.cyc =
                                [MarkOverlap(@, h) EXCEPT ![h] = StartCycle(h)]]
            ELSE /\ response' = [response EXCEPT ![h] =
                                    [NoResponse EXCEPT !.status = 401,
                                                       !.delivered = TRUE]]
                 /\ UNCHANGED <<pc, hist>>
    /\ requests' = requests + 1
    /\ UNCHANGED <<viper, source, files, dirs, alive, api_response, meta_object,
                   current_meta, todo, idx, cycles, faults>>

\* sync() returned to handleSyncRequest: the handler returns and net/http
\* sends the buffered response
handler_return(h) ==
    /\ alive /\ pc[h] = "return"
    /\ pc' = [pc EXCEPT ![h] = "idle"]
    /\ response' = [response EXCEPT ![h].delivered = TRUE]
    /\ Returned(h)
    /\ hist' = [hist EXCEPT !.cyc[h] = NoCycle]
    /\ UNCHANGED <<viper, source, files, dirs, alive, request, cycles, requests, faults>>

(***************************************************************************)
(* Specifications.                                                         *)
(***************************************************************************)
Config(server, millis, token, local, force, ext) ==
    [HTTP_SERVER_ENABLED |-> server, MODE_INFINITY |-> millis,
     API_TOKEN |-> token, MODE_FETCH_LOCAL |-> local,
     MODE_FORCE_UPDATE |-> force, STORY_EXTENSION |-> ext,
     HTTP_SERVER_SYNC_HANDLER |-> DefaultSyncHandler]

\* one sync cycle of process p, step by step
Cycle(p) ==
    \/ sync(p)
    \/ IsUpdateNeeded(p)
    \/ archive(p)
    \/ empty_content_dir(p)
    \/ os_Remove(p)
    \/ save_meta(p)
    \/ save_story(p)
    \/ save_404(p)
    \/ save_sitemap(p)

\* server mode with the sync trigger: the startup cycle, then concurrent
\* trigger requests; no I/O call fails
InitServer ==
    \E token \in {"", "secret"} :
        Init(Config(TRUE, 0, token, FALSE, FALSE, "html"), Payloads, MaxFaults, NoBytes)

Next ==
    \/ main
    \/ start_server
    \/ \E p \in Procs : Cycle(p)
    \/ \E h \in Handlers : handleSyncRequest(h) \/ handler_return(h)

Spec == InitServer /\ [][Next]_vars

\* standalone mode: main() alone, once or on the timer; no I/O call fails
InitStandalone ==
    \E millis \in {0, 1000}, local \in BOOLEAN, force \in BOOLEAN :
        Init(Config(FALSE, millis, "secret", local, force, "html"), Payloads, MaxFaults, NoBytes)

NextStandalone ==
    \/ main
    \/ nap
    \/ main_exit
    \/ Cycle(Main)

SpecStandalone == InitStandalone /\ [][NextStandalone]_vars

\* standalone mode on the timer, with up to MaxFaults failing I/O calls
InitFaults ==
    \E force \in BOOLEAN :
        Init(Config(FALSE, 1000, "secret", TRUE, force, "html"), Payloads, 0, NoBytes)

NextFaults ==
    \/ main
    \/ nap
    \/ Cycle(Main)

SpecFaults == InitFaults /\ [][NextFaults]_vars

\* standalone mode on the timer, the source holding a payload whose anchors
\* are not plain names; no I/O call is made to fail
InitAnchors ==
    \E force \in BOOLEAN :
        Init(Config(FALSE, 1000, "secret", TRUE, force, "html"), AnchorPayloads,
             MaxFaults, NoBytes)

SpecAnchors == InitAnchors /\ [][NextFaults]_vars

\* server mode, file requests only: the startup cycle, then the resolver
InitResolve ==
    \E ext \in {"html", "", "123"}, earlier \in {NoBytes, Payload1} :
        Init(Config(TRUE, 0, "secret", TRUE, FALSE, ext), Payloads, MaxFaults, earlier)

NextResolve ==
    \/ main
    \/ start_server
    \/ Cycle(Main)
    \/ \E h \in Handlers : NotFound(h) \/ ServeIndex(h) \/ handleFileRequest(h)

SpecResolve == InitResolve /\ [][NextResolve]_vars

\* the values HTTP_SERVER_SYNC_HANDLER is configured with (.env file, line 471)
SyncHandlers == {DefaultSyncHandler, Root, <<"favicon.ico">>, <<"index">>}

\* server mode, every kind of request, over each configured trigger path
InitDispatch ==
    \E trigger \in SyncHandlers, earlier \in {NoBytes, Payload2} :
        Init([Config(TRUE, 0, "secret", TRUE, FALSE, "html")
                 EXCEPT !.HTTP_SERVER_SYNC_HANDLER = trigger],
             {Payload1}, MaxFaults, earlier)

NextDispatch ==
    \/ main
    \/ start_server
    \/ \E p \in Procs : Cycle(p)
    \/ \E h \in Handlers :
          \/ NotFound(h)
          \/ ServeIndex(h)
          \/ handleFileRequest(h)
          \/ handleSyncRequest(h)
          \/ handler_return(h)

SpecDispatch == InitDispatch /\ [][NextDispatch]_vars

(***************************************************************************)
(* Properties.                                                             *)
(***************************************************************************)
\* the snapshot file of the record with checksum sum
SnapshotOf(sum) == AddSuffix(SnapshotDir, "meta." \o sum \o ".json")

\* C1: with MODE_FORCE_UPDATE off, a cycle whose payload has the checksum
\* that the last materialized cycle persisted to meta.json ends without
\* having written or removed any file.
C1_Idempotence ==
    ( /\ pc[Main] = "return"
      /\ ~viper.MODE_FORCE_UPDATE
      /\ meta_object[Main].Checksum # ""
      /\ meta_object[Main].Checksum = hist.cyc[Main].start )
    => ~hist.cyc[Main].wrote

\* C2: in a cycle where meta.json parsed and its checksum differs from the
\* payload's, once the archival write is done (and did not fail) exactly one
\* new snapshot file has appeared, named by the previous checksum and
\* holding the previous record as it is stored in meta.json, which is not
\* yet overwritten.
C2_Archival ==
    ( /\ pc[Main] \in {"purge", "remove", "save_meta"}
      /\ current_meta[Main].IsExpired
      /\ hist.cyc[Main].archived # "failed" )
    => /\ hist.cyc[Main].archived = "new"
       /\ ValidJson(files[MetaPath])
       /\ IsFile(SnapshotOf(Unmarshal(files[MetaPath]).Checksum))
       /\ files[SnapshotOf(Unmarshal(files[MetaPath]).Checksum)] = files[MetaPath]

\* C3: right after SaveFile wrote meta_object to meta.json, the file holds
\* exactly the written bytes and parses to a record equal to meta_object in
\* every field.
C3_MetaRoundTrip ==
    ( /\ pc[Main] = "save_story"
      /\ idx[Main] = 1
      /\ hist.cyc[Main].saved )
    => /\ files[MetaPath] = Marshal(meta_object[Main])
       /\ ValidJson(files[MetaPath])
       /\ Unmarshal(files[MetaPath]) = meta_object[Main]

\* the step in which handler h takes a request
Accepting(h) ==
    /\ requests' = requests + 1
    /\ pc[h] = "idle"
    /\ \A g \in Earlier(h) : pc[g] # "idle"

C5_PathSafety ==
    \A h \in Handlers :
        \A q \in response[h].probes \cup response[h].served :
            Inside(ContentDir, q)

\* the file or directory q exists
Exists(q) == IsFile(q) \/ IsDir(q)

\* the outcome the fallback ordering prescribes for a request path
Prescribed(path) ==
    LET direct == Join(ContentDir, Clean(path))
        suffixed == Join(ContentDir, AddSuffix(Clean(path), storyExtension))
    IN IF Exists(direct) THEN [status |-> 0, served |-> {direct}]
       ELSE IF storyExtension # "" /\ Exists(suffixed)
            THEN [status |-> 0, served |-> {suffixed}]
            ELSE [status |-> 404,
                  served |-> {Join(ContentDir, <<"404" \o storyExtension>>)}]

\* C6: for a request the file resolver handled, the file served and the
\* status written are: the direct file if it exists; else, with a non-empty
\* suffix, path+suffix if that exists, without a 404 status; else the 404
\* file with status 404.  (No file changes while the server only resolves.)
C6_FallbackOrdering ==
    \A h \in Handlers :
        ( /\ response[h].delivered
          /\ requestHandler(request[h].Path) = "handleFileRequest" )
        => /\ response[h].served = Prescribed(request[h].Path).served
           /\ response[h].status = Prescribed(request[h].Path).status

\* C7: at most one process is inside sync() at any instant.
C7_SingleFlight == Cardinality({p \in Procs : InSync(p)}) <= 1

\* the anchors of the stories of a payload
Anchors(data) == {data.Stories[i].Anchor : i \in 1..Len(data.Stories)}

\* C8: when two trigger cycles that overlapped have both finished, every
\* story of the payloads (present in both) has its file, holding the content
\* of that story in some generation.
C8_ConcurrentTriggers ==
    ( \A h \in Handlers : pc[h] = "return" /\ hist.cyc[h].overlapped )
    => \A s \in AllStories :
          ( \A h \in Handlers : s.Anchor \in Anchors(api_response[h]) )
          => /\ IsFile(Story_GetFilePath(s))
             /\ files[Story_GetFilePath(s)] \in
                   {t.Content : t \in {u \in AllStories : u.Anchor = s.Anchor}}

\* C9: once a generation has been materialized completely, the content tree
\* is in every state the complete tree of some generation.
C9_GenerationAtomicity ==
    hist.complete => Tree(files) \in {Generation(d) : d \in GoodPayloads}

\* C10: a trigger request that was acknowledged with 200 is either still
\* being handled or has had its response sent, and the server stays up.
C10_DefiniteOutcome ==
    /\ pc[Main] = "serve" => alive
    /\ \A h \in Handlers :
          (response[h].status = 200 /\ ~response[h].delivered)
          => (alive /\ InSync(h))

\* C11: a request is handled by the first that applies of: the denylist
\* (404, no file opened, no sync), the sync trigger when the path is the
\* configured trigger path (200 or 401, no file opened), the index file for
\* "/", the file resolver.
C11_DispatchPrecedence ==
    \A h \in Handlers :
        request[h].Path # NoRequest.Path =>
            LET path == request[h].Path
                r == response[h]
            IN IF path \in ignoreURLs
               THEN r.status = 404 /\ r.probes = {} /\ r.served = {} /\ ~InSync(h)
               ELSE IF path = viper.HTTP_SERVER_SYNC_HANDLER
                    THEN r.status \in {200, 401} /\ r.probes = {} /\ r.served = {}
                    ELSE IF path = Root
                         THEN /\ r.status = 0 /\ r.probes = {}
                              /\ r.served = {Join(ContentDir, <<"index" \o storyExtension>>)}
                         ELSE r.status \in {0, 404} /\ r.probes # {}

\* C12: every file on disk is the current record at meta.json, a file
\* inside the content directory, or an archived record whose parent
\* directory is the snapshot directory.
C12_PersistedLayout ==
    \A q \in DOMAIN files :
        \/ q = MetaPath
        \/ Inside(ContentDir, q)
        \/ Parent(q) = SnapshotDir

\* C13: the step that decides staleness writes nothing and goes on to the
\* archival exactly when meta.json parses and its checksum differs from the
\* payload's, to the materializer when meta.json is missing or unparsable or
\* MODE_FORCE_UPDATE is set, and otherwise returns with nothing written in
\* the cycle; the archival is reached from the decision only and is followed
\* by the materializer.
C13_StalenessDecision ==
    /\ [][\A p \in Procs :
            (pc[p] = "IsUpdateNeeded" /\ pc'[p] # pc[p]) =>
                LET missing == ~IsFile(MetaPath) \/ ~ValidJson(files[MetaPath])
                    differs == /\ ~missing
                               /\ Unmarshal(files[MetaPath]).Checksum
                                      # meta_object[p].Checksum
                IN /\ files' = files
                   /\ pc'[p] = IF differs THEN "archive"
                               ELSE IF missing \/ viper.MODE_FORCE_UPDATE
                                    THEN "purge"
                                    ELSE "return"
                   /\ pc'[p] = "return" => ~hist'.cyc[p].wrote]_vars
    /\ [][\A p \in Procs :
            /\ (pc[p] = "archive" /\ pc'[p] # pc[p]) => pc'[p] = "purge"
            /\ (pc'[p] = "archive" /\ pc[p] # "archive") => pc[p] = "IsUpdateNeeded"
            /\ (pc'[p] = "purge" /\ pc[p] # "purge")
                   => pc[p] \in {"IsUpdateNeeded", "archive"}]_vars

\* C13 witness: a forced rewrite although meta.json holds the payload's
\* checksum, with nothing archived.
C13_Witness ==
    /\ pc[Main] = "purge"
    /\ viper.MODE_FORCE_UPDATE
    /\ IsFile(MetaPath) /\ ValidJson(files[MetaPath])
    /\ Unmarshal(files[MetaPath]).Checksum = meta_object[Main].Checksum
    /\ hist.cyc[Main].archived = "no"

\* C14: a cycle whose purge failed (os.ReadDir or an os.Remove returned an
\* error) has not written the metadata record and is not at, or past, the
\* writes of the stories, the 404 page and the sitemap.
C14_PurgeFailureAborts ==
    \A p \in Procs :
        hist.cyc[p].purged = "failed" =>
            /\ ~hist.cyc[p].saved
            /\ pc[p] \notin {"save_story", "save_404", "save_sitemap"}

\* b starts with the bytes a
StartsWith(b, a) == Len(a) <= Len(b) /\ SubSeq(b, 1, Len(a)) = a

\* C15: when a materialization has returned, every story of the payload
\* whose write did not fail has its file anchor+suffix in the content
\* directory, holding the story's content; and whether or not a write failed,
\* the loop over the stories is followed by the write of the 404 page and
\* that by the write of the sitemap.
C15_PartialFailureTolerance ==
    /\ [](\A p \in Procs :
            (pc[p] = "return" /\ hist.cyc[p].purged # "no") =>
                \A i \in 1..Len(api_response[p].Stories) :
                    LET story == api_response[p].Stories[i]
                        path == Join(ContentDir,
                                     AddSuffix(story.Anchor, storyExtension))
                    IN path \notin hist.cyc[p].failed =>
                          /\ IsFile(path)
                          /\ Parent(path) = ContentDir
                          /\ StartsWith(files[path], story.Content))
    /\ [][\A p \in Procs :
            /\ (pc[p] = "save_story" /\ pc'[p] # "save_story")
                   => (pc'[p] = "save_404" /\ idx[p] = Len(api_response[p].Stories))
            /\ (pc[p] = "save_404" /\ pc'[p] # "save_404") => pc'[p] = "save_sitemap"
            /\ (pc'[p] = "return" /\ pc[p] # "return")
                   => pc[p] \in {"sync", "IsUpdateNeeded", "save_sitemap"}]_vars

\* C15 witness: a materialization returned in which the write of one story
\* failed and the other story, the 404 page and the sitemap were written.
C15_Witness ==
    /\ pc[Main] = "return"
    /\ hist.cyc[Main].failed = {Story_GetFilePath(Index2)}
    /\ ~IsFile(Story_GetFilePath(Index2))
    /\ IsFile(Story_GetFilePath(About2))
    /\ IsFile(ContentFile_GetFilePath("404" \o storyExtension))
    /\ IsFile(ContentFile_GetFilePath("sitemap.xml"))

\* the names a snapshot of the record with checksum sum can have: the one
\* GetFilePath builds, or meta.<sum>.json inside the snapshot directory
SnapshotNames(sum) ==
    {SnapshotOf(sum), Append(SnapshotDir, "meta." \o sum \o ".json")}

\* C16: for every checksum that a cycle wrote to meta.json and that a later
\* cycle replaced there with a different one, a snapshot file named by the
\* checksum exists and holds a metadata record with that checksum.
C16_HistoryPreservation ==
    \A sum \in hist.superseded :
        \E q \in SnapshotNames(sum) :
            /\ IsFile(q)
            /\ ValidJson(files[q])
            /\ Unmarshal(files[q]).Checksum = sum

\* C17: a cycle that could not acquire its payload (sync() holds no bytes
\* when it ends) has returned normally: it did not panic or exit, the
\* process is running, and the cycle changed no file.
C17_SourceUnavailable ==
    \A p \in Procs :
        (api_response[p] = NoBytes /\ pc[p] \in {"return", "panic", "fatal"}) =>
            /\ pc[p] = "return"
            /\ alive
            /\ ~hist.cyc[p].wrote

\* C18: every file on disk is the metadata record, a snapshot, or a direct
\* child of the content directory.
C18_WriteConfinement ==
    \A q \in DOMAIN files :
        \/ q = MetaPath
        \/ \E sum \in Checksums : q \in SnapshotNames(sum)
        \/ Parent(q) = ContentDir

\* C19: when a cycle has ended and meta.json holds the checksum of a payload
\* of the source, the content directory has the file of every story of that
\* payload, the 404 page and the sitemap.
C19_MetaContentConsistency ==
    ( /\ pc[Main] = "return"
      /\ IsFile(MetaPath)
      /\ ValidJson(files[MetaPath]) )
    => \A data \in {d \in source : d.valid} :
          Unmarshal(files[MetaPath]).Checksum = Sha256Hex(data) =>
             /\ \A i \in 1..Len(data.Stories) :
                   IsFile(Join(ContentDir,
                               AddSuffix(data.Stories[i].Anchor, storyExtension)))
             /\ IsFile(Join(ContentDir, <<"404" \o storyExtension>>))
             /\ IsFile(Join(ContentDir, <<"sitemap.xml">>))

\* C20: a request to the trigger path that carries no token, or an empty
\* one, is answered 401 and its handler runs no sync cycle.
C20_NoUnauthenticatedTrigger ==
    \A h \in Handlers :
        ( /\ request[h].Path = viper.HTTP_SERVER_SYNC_HANDLER
          /\ request[h].Token = "" )
        => /\ response[h].status = 401
           /\ ~InSync(h)

====
